---- MODULE Spec2Model ----
(***************************************************************************)
(* mcssh: an SSH line editor (server.py, class SSHServer) in front of a    *)
(* Minecraft console relay (mc.py, class MinecraftSocket).                 *)
(*                                                                         *)
(* Python strings are modelled as sequences of one-character strings, so   *)
(* that slicing, prefix tests and concatenation are computed as the code   *)
(* computes them.  Python lists are sequences (index i of Python is index  *)
(* i+1 here).                                                              *)
(***************************************************************************)
EXTENDS Integers, Sequences, FiniteSets, TLC

(* ------------------------------ bounds --------------------------------- *)

\* number of SSH sessions constructed by main()
NSessions == 2
\* number of console events the upstream feed delivers in one run
MaxIngest == 2
\* largest timestampMillis the upstream feed uses
MaxTs == 2
\* number of keys the operator presses in one run
MaxKeys == 4
\* number of transport faults of the upstream connection in one run
MaxFaults == 2

Sessions == 1 .. NSessions

(* ------------------------- sequence helpers ---------------------------- *)

Range(s) == {s[i] : i \in 1 .. Len(s)}

\* list.remove(x): deletes the first occurrence (the caller checks x is there)
FirstIndex(s, x) == CHOOSE i \in 1 .. Len(s) : s[i] = x /\ \A j \in 1 .. (i - 1) : s[j] # x

ListRemove(s, x) == SubSeq(s, 1, FirstIndex(s, x) - 1) \o SubSeq(s, FirstIndex(s, x) + 1, Len(s))

\* the empty Python string
EmptyStr == <<>>

\* str.startswith
StartsWith(s, p) == Len(p) <= Len(s) /\ SubSeq(s, 1, Len(p)) = p

(* ------------------------- console messages ---------------------------- *)

\* a record of the feed that has no "level" key
NoKey == "<no key>"

TextPlain == <<"h", "i">>

TextBan == <<"/", "b", ":", " ", "x">>

Texts == {TextPlain, TextBan}

\* The raw frames of the feed.  `layout` stands for the byte layout of the
\* JSON text (whitespace, key order): two frames with different layout are
\* different strings that json.loads maps to the same dict.
RawMessages ==
    {[timestampMillis |-> t, level |-> "INFO", message |-> x, layout |-> 0] :
        t \in 1 .. MaxTs, x \in Texts}
    \cup {[timestampMillis |-> 1, level |-> "INFO", message |-> TextPlain, layout |-> 1],
          [timestampMillis |-> MaxTs, level |-> NoKey, message |-> TextPlain, layout |-> 0]}

\* the well-formed plain lines among them
PlainMessages ==
    {r \in RawMessages : r.level # NoKey /\ r.message = TextPlain /\ r.layout = 0}

\* json.loads(message): the dict of the frame, its byte layout gone
json_loads(raw) ==
    [timestampMillis |-> raw.timestampMillis, level |-> raw.level, message |-> raw.message]

IsSpace(c) == c \in {" ", "\t", "\n"}

\* end (exclusive, 1-based) of the run of non-whitespace characters from index 2
RunEnd(text) ==
    IF \E i \in 2 .. Len(text) : IsSpace(text[i])
    THEN CHOOSE i \in 2 .. Len(text) :
            IsSpace(text[i]) /\ \A j \in 2 .. (i - 1) : ~IsSpace(text[j])
    ELSE Len(text) + 1

\* positions of a ':' that can close the greedy group of  ^\/([^\s]+):
ColonStops(text) == {j \in 3 .. (RunEnd(text) - 1) : text[j] = ":"}

\* re.match(r"^\/([^\s]+):", text) succeeds
CommandMatches(text) ==
    Len(text) >= 1 /\ text[1] = "/" /\ ColonStops(text) # {}

GreedyStop(text) == CHOOSE j \in ColonStops(text) : \A k \in ColonStops(text) : k <= j

\* match.group(1): the greedy group ends at the last ':' of the run
CommandOf(text) == SubSeq(text, 2, GreedyStop(text) - 1)

\* format_message: "<local time to the second> <level> : <message>"; the
\* time is the millisecond stamp divided by 1000
format_message(m) ==
    [time |-> m.timestampMillis \div 1000,
     text |-> <<" ">> \o <<m.level>> \o <<" ", ":", " ">> \o m.message]

\* format_message raises KeyError when the record has no level
format_raises(m) == m.level = NoKey

(* ------------------------------ state ---------------------------------- *)

VARIABLES
    \* mc.py module globals and MinecraftSocket fields
    KNOWN_MESSAGES,     \* list of raw frames accepted so far
    KNOWN_COMMANDS,     \* list of learned command names
    messages_file,      \* content of .messages
    commands_file,      \* content of commands.txt
    latest_message,     \* timestamp of the last accepted frame
    callbacks,          \* the subscriber registry, a list of sessions
    \* the upstream event loop inside on_message
    upstream,           \* frames the feed may deliver
    omPc,               \* "idle" | "loop": position of the event loop
    omIdx,              \* list-iterator index of `for callback in self.callbacks`
    callbackCell,       \* per on_message call: the closure variable `callback`
    ingestLog,          \* one entry per on_message call: frame, mark before, outcome
    \* dispatch threads (one per Thread(target=wrapper).start())
    threads,            \* list of [msg, pc, cb, lk, tgt]
    \* SSHServer fields used by the relay
    _lock,              \* per session: 0 (None) or the number of its Lock object
    lockCtr,            \* per session: Lock objects created so far
    held,               \* Lock objects currently held, as <<session, number>>
    hookRaises,         \* per session: mc_callback raises (no PTY yet: no width)
    delivered,          \* per session: ingest ids, in the order mc_callback was entered
    \* the player roster of MinecraftSocket
    now,                \* time.time(), in seconds
    players_last_updated,
    _players,           \* Unset (no attribute yet) or the last list fetched
    getPc,              \* per session: position of its thread in get_online_players
    queries,            \* times at which the HTTP query was issued
    results,            \* per session: how its last get_online_players call ended
    \* the line editor of the session under test (SSHServer fields)
    buffer,
    position,
    selected,
    selected_suffix,
    filter,
    history,
    history_file,       \* content of history.txt, or NoFile
    inputThread,        \* "not_started" | "running" | "crashed" | "exited"
    inputError,         \* the exception that ended the input_handler thread, if any
    keys,               \* number of keys the input loop has dispatched so far
    sent,               \* commands passed to MinecraftSocket.send, in order
    channel,            \* the SSH channel of that session: "open" | "eof"
    \* the upstream connection of MinecraftSocket
    apps,               \* one entry per WebSocketApp created by start(): its state
    ws,                 \* self.ws: index of the current WebSocketApp
    sendPc,             \* per session: position of its thread in send()
    sendTarget,         \* per session: the WebSocketApp its ws.send was called on
    sendError,          \* per session: an exception send() raised to it, if any
    faults              \* transport faults the environment has injected so far

relayVars ==
    <<KNOWN_MESSAGES, KNOWN_COMMANDS, messages_file, commands_file, latest_message,
      callbacks, upstream, omPc, omIdx, callbackCell, ingestLog, threads,
      _lock, lockCtr, held, hookRaises, delivered>>

rosterVars == <<now, players_last_updated, _players, getPc, queries, results>>

editorVars ==
    <<buffer, position, selected, selected_suffix, filter, history, history_file,
      inputThread, inputError, keys, sent>>

linkVars == <<channel, apps, ws, sendPc, sendTarget, sendError, faults>>

vars == <<relayVars, rosterVars, editorVars, linkVars>>

\* no exception
NoErr == "none"

\* a thread that has ended keeps no frame: (msg, how it ended)
EndedThread(th, how) == [msg |-> th.msg, pc |-> how, cb |-> 0, lk |-> 0, tgt |-> 0]

NewThread(k) == [msg |-> k, pc |-> "lock_check", cb |-> 0, lk |-> 0, tgt |-> 0]

\* main(): ws.start() has returned, so the first WebSocketApp is connected;
\* no session is inside send(); the SSH channel is open
InitLink ==
    /\ apps = <<"connected">>
    /\ ws = 1
    /\ sendPc = [s \in Sessions |-> "idle"]
    /\ sendTarget = [s \in Sessions |-> 0]
    /\ sendError = [s \in Sessions |-> NoErr]
    /\ faults = 0
    /\ channel = "open"

\* module load (mc.py 23-38) and MinecraftSocket.__init__, SSHServer.__init__
InitRelay ==
    /\ KNOWN_MESSAGES = <<>>
    /\ messages_file = <<>>
    /\ latest_message = 0
    /\ omPc = "idle"
    /\ omIdx = 0
    /\ callbackCell = [k \in 1 .. MaxIngest |-> 0]
    /\ ingestLog = <<>>
    /\ threads = <<>>
    /\ _lock = [s \in Sessions |-> 0]
    /\ lockCtr = [s \in Sessions |-> 0]
    /\ held = {}
    /\ delivered = [s \in Sessions |-> <<>>]
    /\ InitLink

\* the freshness window of the roster cache, in seconds
FreshWindow == 10

\* seconds of wall-clock time a run covers after start-up
MaxElapsed == 11

\* time.time() at start-up: the epoch is far more than a window in the past
StartTime == FreshWindow

\* an optional value: Nothing, or Some(x) with x = Get(Some(x))
Nothing == <<>>

Some(x) == <<x>>

Get(opt) == opt[1]

\* MinecraftSocket has the annotation `_players: List[str]` and no value:
\* the attribute does not exist until the first successful fetch
Unset == Nothing

\* requests.get / raise_for_status raised a RequestException: no body
HttpError == Nothing

NameBo == <<"b", "o">>

\* the JSON bodies the players endpoint can answer with
Rosters == {<<>>, <<[displayName |-> NameBo]>>}

Responses == {HttpError} \cup {Some(r) : r \in Rosters}

NoResult == [kind |-> "none", value |-> <<>>, via |-> "none", cached |-> Unset]

\* class attributes and MinecraftSocket.__init__ (mc.py 68-69, 75-77)
InitRoster ==
    /\ now = StartTime
    /\ players_last_updated = 0
    /\ _players = Unset
    /\ getPc = [s \in Sessions |-> "idle"]
    /\ queries = <<>>
    /\ results = [s \in Sessions |-> NoResult]

NoFile == Nothing

\* class attributes and SSHServer.__init__ (server.py 64-72, 120-125)
InitEditor ==
    /\ buffer = <<>>
    /\ position = 0
    /\ selected = 0
    /\ selected_suffix = 0
    /\ filter = EmptyStr
    /\ history = <<EmptyStr>>
    /\ history_file = NoFile
    /\ inputThread = "not_started"
    /\ inputError = NoErr
    /\ keys = 0
    /\ sent = <<>>

(* ------------------- MinecraftSocket.on_message ------------------------ *)

\* a learning step without the membership test
LearnAlways(cmds, text) ==
    IF CommandMatches(text) THEN Append(cmds, CommandOf(text)) ELSE cmds

\* the command-learning step (mc.py 156-162) applied to a list of commands
Learn(cmds, text) ==
    IF CommandMatches(text) /\ CommandOf(text) \notin Range(cmds)
    THEN Append(cmds, CommandOf(text))
    ELSE cmds

\* on_message without its stale-timestamp guard
OutcomeNoStaleCheck(raw) ==
    IF raw \in Range(KNOWN_MESSAGES) THEN "duplicate"
    ELSE IF format_raises(json_loads(raw)) THEN "unformattable"
    ELSE "dispatch"

\* on_message without its duplicate guard
OutcomeNoDuplicateCheck(raw) ==
    IF json_loads(raw).timestampMillis < latest_message THEN "stale"
    ELSE IF format_raises(json_loads(raw)) THEN "unformattable"
    ELSE "dispatch"

\* what on_message does with a frame, decided by its guards in code order
Outcome(raw) ==
    IF json_loads(raw).timestampMillis < latest_message THEN "stale"
    ELSE IF raw \in Range(KNOWN_MESSAGES) THEN "duplicate"
    ELSE IF format_raises(json_loads(raw)) THEN "unformattable"
    ELSE "dispatch"

\* on_message up to the dispatch loop: parse, stale and duplicate checks,
\* store, persist, learn, format.  The event loop is one thread, so a new
\* call starts only when the previous call has returned.
on_message(raw) ==
    /\ omPc = "idle"
    /\ Len(ingestLog) < MaxIngest
    /\ raw \in upstream
    /\ ingestLog' = Append(ingestLog,
            [raw |-> raw, mark |-> latest_message, outcome |-> Outcome(raw)])
    /\ IF Outcome(raw) \in {"stale", "duplicate"}
       THEN UNCHANGED <<KNOWN_MESSAGES, messages_file, latest_message,
                        KNOWN_COMMANDS, commands_file, omPc, omIdx>>
       ELSE /\ KNOWN_MESSAGES' = Append(KNOWN_MESSAGES, raw)
            /\ messages_file' = KNOWN_MESSAGES'
            /\ latest_message' = json_loads(raw).timestampMillis
            /\ KNOWN_COMMANDS' = Learn(KNOWN_COMMANDS, json_loads(raw).message)
            /\ commands_file' = IF KNOWN_COMMANDS' # KNOWN_COMMANDS
                                THEN KNOWN_COMMANDS' ELSE commands_file
            /\ omPc' = IF Outcome(raw) = "dispatch" THEN "loop" ELSE "idle"
            /\ omIdx' = 0
    /\ UNCHANGED <<callbacks, upstream, callbackCell, threads, _lock, lockCtr, held,
                   hookRaises, delivered>>
    /\ UNCHANGED <<rosterVars, editorVars, linkVars>>

\* one iteration of `for callback in self.callbacks`: the list iterator
\* yields the element at its index, the closure variable is rebound, and a
\* thread running wrapper is started
dispatch_next ==
    /\ omPc = "loop"
    /\ omIdx < Len(callbacks)
    /\ callbackCell' = [callbackCell EXCEPT ![Len(ingestLog)] = callbacks[omIdx + 1]]
    /\ omIdx' = omIdx + 1
    /\ threads' = Append(threads, NewThread(Len(ingestLog)))
    /\ UNCHANGED <<KNOWN_MESSAGES, KNOWN_COMMANDS, messages_file, commands_file,
                   latest_message, callbacks, upstream, omPc, ingestLog,
                   _lock, lockCtr, held, hookRaises, delivered>>
    /\ UNCHANGED <<rosterVars, editorVars, linkVars>>

\* the iterator is exhausted: on_message returns
dispatch_end ==
    /\ omPc = "loop"
    /\ omIdx >= Len(callbacks)
    /\ omPc' = "idle"
    /\ UNCHANGED <<KNOWN_MESSAGES, KNOWN_COMMANDS, messages_file, commands_file,
                   latest_message, callbacks, upstream, omIdx, callbackCell, ingestLog,
                   threads, _lock, lockCtr, held, hookRaises, delivered>>
    /\ UNCHANGED <<rosterVars, editorVars, linkVars>>

(* ------------------------- wrapper threads ----------------------------- *)

ingestVars ==
    <<KNOWN_MESSAGES, KNOWN_COMMANDS, messages_file, commands_file, latest_message,
      upstream, omPc, omIdx, callbackCell, ingestLog>>

SetThread(t, r) == [threads EXCEPT ![t] = r]

\* `callback.lock`: the closure variable is read now, and the property tests
\* `self._lock is None`
wrapper_lock_check(t) ==
    /\ threads[t].pc = "lock_check"
    /\ LET cb == callbackCell[threads[t].msg] IN
        threads' = SetThread(t, [threads[t] EXCEPT
                        !.cb = cb,
                        !.pc = IF _lock[cb] = 0 THEN "lock_create" ELSE "lock_return"])
    /\ UNCHANGED <<ingestVars, callbacks, _lock, lockCtr, held, hookRaises, delivered>>
    /\ UNCHANGED <<rosterVars, editorVars, linkVars>>

\* `self._lock = threading.Lock()`
wrapper_lock_create(t) ==
    /\ threads[t].pc = "lock_create"
    /\ lockCtr' = [lockCtr EXCEPT ![threads[t].cb] = @ + 1]
    /\ _lock' = [_lock EXCEPT ![threads[t].cb] = lockCtr'[threads[t].cb]]
    /\ threads' = SetThread(t, [threads[t] EXCEPT !.pc = "lock_return"])
    /\ UNCHANGED <<ingestVars, callbacks, held, hookRaises, delivered>>
    /\ UNCHANGED <<rosterVars, editorVars, linkVars>>

\* `return self._lock`
wrapper_lock_return(t) ==
    /\ threads[t].pc = "lock_return"
    /\ threads' = SetThread(t, [threads[t] EXCEPT
                        !.lk = _lock[threads[t].cb], !.pc = "acquire"])
    /\ UNCHANGED <<ingestVars, callbacks, _lock, lockCtr, held, hookRaises, delivered>>
    /\ UNCHANGED <<rosterVars, editorVars, linkVars>>

\* `with <lock>:` blocks until that Lock object is free
wrapper_acquire(t) ==
    /\ threads[t].pc = "acquire"
    /\ <<threads[t].cb, threads[t].lk>> \notin held
    /\ held' = held \cup {<<threads[t].cb, threads[t].lk>>}
    /\ threads' = SetThread(t, [threads[t] EXCEPT !.pc = "call"])
    /\ UNCHANGED <<ingestVars, callbacks, _lock, lockCtr, hookRaises, delivered>>
    /\ UNCHANGED <<rosterVars, editorVars, linkVars>>

\* `callback.mc_callback(ws, formatted)`: the closure variable is read again
\* and that session's render hook is entered
wrapper_call(t) ==
    /\ threads[t].pc = "call"
    /\ LET tgt == callbackCell[threads[t].msg] IN
        /\ threads' = SetThread(t, [threads[t] EXCEPT !.tgt = tgt, !.pc = "in_hook"])
        /\ delivered' = [delivered EXCEPT ![tgt] = Append(@, threads[t].msg)]
    /\ UNCHANGED <<ingestVars, callbacks, _lock, lockCtr, held, hookRaises>>
    /\ UNCHANGED <<rosterVars, editorVars, linkVars>>

\* mc_callback returns or raises; either way the with-block releases the lock
mc_callback_end(t) ==
    /\ threads[t].pc = "in_hook"
    /\ held' = held \ {<<threads[t].cb, threads[t].lk>>}
    /\ threads' = SetThread(t, IF hookRaises[threads[t].tgt]
                                THEN [threads[t] EXCEPT !.pc = "except"]
                                ELSE EndedThread(threads[t], "done"))
    /\ UNCHANGED <<ingestVars, callbacks, _lock, lockCtr, hookRaises, delivered>>
    /\ UNCHANGED <<rosterVars, editorVars, linkVars>>

\* `self.callbacks.remove(callback)`: the closure variable is read a third
\* time; list.remove raises ValueError when the element is absent, which
\* ends the thread
wrapper_except(t) ==
    /\ threads[t].pc = "except"
    /\ LET victim == callbackCell[threads[t].msg] IN
        IF victim \in Range(callbacks)
        THEN /\ callbacks' = ListRemove(callbacks, victim)
             /\ threads' = SetThread(t, EndedThread(threads[t], "done"))
        ELSE /\ callbacks' = callbacks
             /\ threads' = SetThread(t, EndedThread(threads[t], "died"))
    /\ UNCHANGED <<ingestVars, _lock, lockCtr, held, hookRaises, delivered>>
    /\ UNCHANGED <<rosterVars, editorVars, linkVars>>

NextRelay ==
    \/ \E raw \in RawMessages : on_message(raw)
    \/ dispatch_next
    \/ dispatch_end
    \/ \E t \in 1 .. Len(threads) : wrapper_lock_check(t)
    \/ \E t \in 1 .. Len(threads) : wrapper_lock_create(t)
    \/ \E t \in 1 .. Len(threads) : wrapper_lock_return(t)
    \/ \E t \in 1 .. Len(threads) : wrapper_acquire(t)
    \/ \E t \in 1 .. Len(threads) : wrapper_call(t)
    \/ \E t \in 1 .. Len(threads) : mc_callback_end(t)
    \/ \E t \in 1 .. Len(threads) : wrapper_except(t)

\* Fan-out: every session subscribed, exactly one of them with a render hook
\* that raises; the feed delivers well-formed plain lines.
InitFanout ==
    /\ InitRelay
    /\ KNOWN_COMMANDS = <<EmptyStr>>
    /\ commands_file = KNOWN_COMMANDS
    /\ InitRoster
    /\ InitEditor
    /\ upstream = PlainMessages
    /\ callbacks = [i \in 1 .. NSessions |-> i]
    /\ \E b \in Sessions : hookRaises = [s \in Sessions |-> s = b]

SpecFanout == InitFanout /\ [][NextRelay]_vars

\* Ingest: one subscribed session, any frame of the feed.
InitIngest ==
    /\ InitRelay
    /\ KNOWN_COMMANDS = <<EmptyStr>>
    /\ commands_file = KNOWN_COMMANDS
    /\ InitRoster
    /\ InitEditor
    /\ upstream = RawMessages
    /\ callbacks = <<1>>
    /\ \E b \in BOOLEAN : hookRaises = [s \in Sessions |-> b /\ s = 1]

SpecIngest == InitIngest /\ [][NextRelay]_vars

(* --------------- MinecraftSocket.get_online_players -------------------- *)

\* `time.time() - self.players_last_updated < 10`
CacheFresh(t, last) == t - last < FreshWindow

\* an except branch that falls back to the cached list
OnHttpErrorStale(cached) == IF cached = Unset THEN <<>> ELSE Get(cached)

\* what the except branch returns (mc.py 96)
OnHttpError(cached) == <<>>

\* The freshness test of one caller thread.  Inside the window the call
\* returns self._players, which raises AttributeError while the attribute
\* does not exist; outside it the thread goes on to refresh.
get_online_players_check(s) ==
    /\ getPc[s] = "idle"
    /\ IF CacheFresh(now, players_last_updated)
       THEN /\ results' = [results EXCEPT ![s] =
                    IF _players = Unset
                    THEN [kind |-> "raised", value |-> <<>>, via |-> "cache", cached |-> _players]
                    ELSE [kind |-> "list", value |-> Get(_players), via |-> "cache",
                          cached |-> _players]]
            /\ getPc' = getPc
       ELSE /\ getPc' = [getPc EXCEPT ![s] = "stale"]
            /\ results' = results
    /\ UNCHANGED <<now, players_last_updated, _players, queries>>
    /\ UNCHANGED <<relayVars, editorVars, linkVars>>

\* `self.players_last_updated = time.time()` and the HTTP request is sent
get_online_players_request(s) ==
    /\ getPc[s] = "stale"
    /\ players_last_updated' = now
    /\ queries' = Append(queries, now)
    /\ getPc' = [getPc EXCEPT ![s] = "requested"]
    /\ UNCHANGED <<now, _players, results>>
    /\ UNCHANGED <<relayVars, editorVars, linkVars>>

\* the request ends: an error returns from the except branch, a body is
\* cached and returned
get_online_players_response(s, resp) ==
    /\ getPc[s] = "requested"
    /\ getPc' = [getPc EXCEPT ![s] = "idle"]
    /\ IF resp = HttpError
       THEN /\ _players' = _players
            /\ results' = [results EXCEPT ![s] =
                    [kind |-> "list", value |-> OnHttpError(_players),
                     via |-> "refresh_failed", cached |-> _players]]
       ELSE /\ _players' = Some(Get(resp))
            /\ results' = [results EXCEPT ![s] =
                    [kind |-> "list", value |-> Get(resp), via |-> "refresh_ok",
                     cached |-> _players]]
    /\ UNCHANGED <<now, players_last_updated, queries>>
    /\ UNCHANGED <<relayVars, editorVars, linkVars>>

\* a second of wall-clock time passes
Tick ==
    /\ now < StartTime + MaxElapsed
    /\ now' = now + 1
    /\ UNCHANGED <<players_last_updated, _players, getPc, queries, results>>
    /\ UNCHANGED <<relayVars, editorVars, linkVars>>

NextRoster ==
    \/ \E s \in Sessions : get_online_players_check(s)
    \/ \E s \in Sessions : get_online_players_request(s)
    \/ \E s \in Sessions : \E resp \in Responses : get_online_players_response(s, resp)
    \/ Tick

\* Roster: the input threads of all sessions ask for the player list (every
\* evaluation of player_suggestions does); nothing arrives from the feed.
InitRosterCalls ==
    /\ InitRelay
    /\ KNOWN_COMMANDS = <<EmptyStr>>
    /\ commands_file = KNOWN_COMMANDS
    /\ InitRoster
    /\ InitEditor
    /\ upstream = {}
    /\ callbacks = [i \in 1 .. NSessions |-> i]
    /\ hookRaises = [s \in Sessions |-> FALSE]

SpecRoster == InitRosterCalls /\ [][NextRoster]_vars

(* ------------------- Python string and list helpers -------------------- *)

Min(a, b) == IF a < b THEN a ELSE b

Max(a, b) == IF a > b THEN a ELSE b

\* str.strip(): leading and trailing whitespace removed
Strip(str) ==
    LET keep == {i \in 1 .. Len(str) : ~IsSpace(str[i])} IN
    IF keep = {} THEN EmptyStr
    ELSE SubSeq(str, CHOOSE i \in keep : \A j \in keep : i <= j,
                     CHOOSE i \in keep : \A j \in keep : j <= i)

\* str.removeprefix('/')
RemoveSlash(str) == IF Len(str) >= 1 /\ str[1] = "/" THEN Tail(str) ELSE str

Spaces(str) == {i \in 1 .. Len(str) : str[i] = " "}

\* len(str.split(" ")) == 1
OneWord(str) == Spaces(str) = {}

\* str.split(" ")[0]
FirstWord(str) ==
    IF Spaces(str) = {} THEN str
    ELSE SubSeq(str, 1, (CHOOSE i \in Spaces(str) : \A j \in Spaces(str) : i <= j) - 1)

\* str.split(" ")[-1]
LastWord(str) ==
    IF Spaces(str) = {} THEN str
    ELSE SubSeq(str, (CHOOSE i \in Spaces(str) : \A j \in Spaces(str) : j <= i) + 1, Len(str))

\* str[n:]
DropChars(str, n) == SubSeq(str, n + 1, Len(str))

RECURSIVE JoinLines(_)
\* "\n".join(list)
JoinLines(list) ==
    IF Len(list) = 0 THEN EmptyStr
    ELSE IF Len(list) = 1 THEN list[1]
    ELSE list[1] \o <<"\n">> \o JoinLines(Tail(list))

RECURSIVE SplitLines(_)
\* str.split("\n")
SplitLines(str) ==
    LET nl == {i \in 1 .. Len(str) : str[i] = "\n"} IN
    IF nl = {} THEN <<str>>
    ELSE LET first == CHOOSE i \in nl : \A j \in nl : i <= j IN
         <<SubSeq(str, 1, first - 1)>> \o SplitLines(DropChars(str, first))

\* [x for i, x in enumerate(list) if i == 0 or list[i] != list[i-1]]
DedupAdjacent(list) ==
    LET keep == {i \in 1 .. Len(list) : i = 1 \/ list[i] # list[i - 1]}
        nth(n) == CHOOSE i \in keep : Cardinality({j \in keep : j <= i}) = n
    IN [n \in 1 .. Cardinality(keep) |-> list[nth(n)]]

\* [x for x in list if x.startswith(prefix)]
WithPrefix(list, prefix) == SelectSeq(list, LAMBDA c : StartsWith(c, prefix))

\* the index a Python list uses for list.insert(i, x): negative indices
\* count from the end, and the result is clamped into 0 .. len
InsertIndex(list, i) == IF i < 0 THEN Max(0, i + Len(list)) ELSE Min(i, Len(list))

\* list.insert(i, x)
ListInsert(list, i, x) ==
    SubSeq(list, 1, InsertIndex(list, i)) \o <<x>>
        \o SubSeq(list, InsertIndex(list, i) + 1, Len(list))

\* the index a Python list uses for list.pop(i) and list[i]
PopIndex(list, i) == IF i < 0 THEN i + Len(list) ELSE i

\* list.pop(i) and list[i] raise IndexError outside the list
IndexError(list, i) == PopIndex(list, i) < 0 \/ PopIndex(list, i) >= Len(list)

\* list.pop(i), when it does not raise
ListPop(list, i) ==
    SubSeq(list, 1, PopIndex(list, i)) \o SubSeq(list, PopIndex(list, i) + 2, Len(list))

(* --------------------- SSHServer: the line editor ---------------------- *)

\* the session under test
Me == 1

\* what channel.recv(1) yields, decoded, once the client side is closed:
\* b"" decodes to the empty str
NoChar == ""

HasChar(c) == c # NoChar

\* "".join(list) of a list of strs of at most one character
Join(list) == SelectSeq(list, HasChar)

\* SSHServer.buffer_str
buffer_str(e) == Join(e.buffer)

S_reload == <<"r", "e", "l", "o", "a", "d">>

S_reload_confirm == S_reload \o <<" ", "c", "o", "n", "f", "i", "r", "m">>

S_exit == <<"e", "x", "i", "t">>

S_clear == <<"c", "l", "e", "a", "r">>

S_cls == <<"c", "l", "s">>

S_reset == <<"r", "e", "s", "e", "t">>

S_broadcast == <<"/", "b", "r", "o", "a", "d", "c", "a", "s", "t", " ">>

\* The editor and the relay fields its handlers read or write, as one
\* record, so that a handler is the composition of the methods it calls.
\* err is the exception in flight.
CurrentE ==
    [buffer |-> buffer, position |-> position, selected |-> selected,
     selected_suffix |-> selected_suffix, filter |-> filter, history |-> history,
     history_file |-> history_file, sent |-> sent, cbs |-> callbacks,
     lu |-> players_last_updated, pl |-> _players, q |-> queries,
     thread |-> inputThread, err |-> NoErr]

Raise(e, name) == [e EXCEPT !.err = name]

\* the handler is still executing: no exception in flight, no exit()
Live(e) == e.err = NoErr /\ e.thread = "running"

\* statement sequencing: F runs unless an exception or exit() came before
Then(e, F(_)) == IF Live(e) THEN F(e) ELSE e

\* [player["displayName"] for player in ...]
DisplayNames(list) == [i \in 1 .. Len(list) |-> list[i].displayName]

\* MinecraftSocket.players, evaluated inside a key handler: one call of
\* get_online_players, with resp the answer of the players endpoint should
\* the call query it
ws_players(e, resp) ==
    IF CacheFresh(now, e.lu)
    THEN IF e.pl = Unset
         THEN [st |-> Raise(e, "AttributeError"), val |-> <<>>]
         ELSE [st |-> e, val |-> DisplayNames(Get(e.pl))]
    ELSE LET stamped == [e EXCEPT !.lu = now, !.q = Append(@, now)] IN
         IF resp = HttpError
         THEN [st |-> stamped, val |-> DisplayNames(OnHttpError(e.pl))]
         ELSE [st |-> [stamped EXCEPT !.pl = Some(Get(resp))],
               val |-> DisplayNames(Get(resp))]

\* SSHServer.is_command_complete
is_command_complete(e) == RemoveSlash(Strip(buffer_str(e))) \in Range(KNOWN_COMMANDS)

\* [self.buffer_str + player[len(word):] for player in matching]
Completed(buf, matching, word) ==
    [i \in 1 .. Len(matching) |-> buf \o DropChars(matching[i], Len(word))]

\* the list comprehension of player_suggestions over the players r.val
player_completions(e, r) ==
    [st |-> r.st,
     val |-> Completed(buffer_str(e), WithPrefix(r.val, LastWord(e.filter)), LastWord(e.filter))]

\* SSHServer.player_suggestions (the later of the two definitions)
player_suggestions(e, resp) ==
    IF Len(e.filter) = 0 \/ Len(FirstWord(e.filter)) = 0
    THEN [st |-> e, val |-> <<>>]
    ELSE IF OneWord(e.filter) /\ is_command_complete(e)
    THEN ws_players(e, resp)
    ELSE player_completions(e, ws_players(e, resp))

\* candidates that are not filtered by the prefix
candidates_unfiltered(e, r) ==
    IF r.st.err # NoErr
    THEN [st |-> r.st, val |-> <<>>]
    ELSE [st |-> r.st,
          val |-> <<e.filter>> \o DedupAdjacent(r.val \o e.history \o KNOWN_COMMANDS)]

\* the candidates of filtered_history given the player suggestions r
candidates(e, r) ==
    IF r.st.err # NoErr
    THEN [st |-> r.st, val |-> <<>>]
    ELSE [st |-> r.st,
          val |-> <<e.filter>> \o
                  DedupAdjacent(WithPrefix(r.val \o e.history \o KNOWN_COMMANDS, e.filter))]

\* SSHServer.filtered_history
filtered_history(e, resp) == candidates(e, player_suggestions(e, resp))

\* the reset test of suffix_selection as written (server.py 351): against
\* the whole candidate list, not the list that is indexed
SuffixResets(e, cands) == e.selected_suffix >= Len(cands)

\* `return self.filtered_history[1:][self.selected_suffix]`, r3 the third
\* evaluation of filtered_history
suffix_selection_index(r3) ==
    IF r3.st.err # NoErr
    THEN [st |-> r3.st, val |-> EmptyStr]
    ELSE IF IndexError(Tail(r3.val), r3.st.selected_suffix)
    THEN [st |-> Raise(r3.st, "IndexError"), val |-> EmptyStr]
    ELSE [st |-> r3.st, val |-> Tail(r3.val)[r3.st.selected_suffix + 1]]

\* `if self.selected_suffix >= len(...): self.selected_suffix = 0`, r2 the
\* second evaluation of filtered_history
suffix_selection_reset(r2, resp) ==
    IF r2.st.err # NoErr
    THEN [st |-> r2.st, val |-> EmptyStr]
    ELSE suffix_selection_index(
            filtered_history(IF SuffixResets(r2.st, r2.val)
                             THEN [r2.st EXCEPT !.selected_suffix = 0]
                             ELSE r2.st, resp))

\* `if len(self.filtered_history[1:]) == 0: return ""`, r1 the first
\* evaluation of filtered_history
suffix_selection_empty(r1, resp) ==
    IF r1.st.err # NoErr \/ Len(Tail(r1.val)) = 0
    THEN [st |-> r1.st, val |-> EmptyStr]
    ELSE suffix_selection_reset(filtered_history(r1.st, resp), resp)

\* SSHServer.suffix_selection (the later of the two definitions): three
\* evaluations of filtered_history, a reset of selected_suffix, an index
suffix_selection(e, resp) == suffix_selection_empty(filtered_history(e, resp), resp)

\* SSHServer.suffix: only its effects on the session matter here
suffix(e, resp) == IF Len(e.filter) = 0 THEN e ELSE suffix_selection(e, resp).st

\* SSHServer.redraw_buffer (the later definition).  The bytes written to
\* the channel are not kept; buffer_formatted reads and cannot raise.
redraw_buffer(e, resp) == suffix(e, resp)

\* the assignments of accept_completion, r the value of suffix_selection
accept(r) ==
    IF r.st.err # NoErr THEN r.st
    ELSE [r.st EXCEPT !.buffer = r.val, !.filter = r.val, !.position = Len(r.val)]

\* SSHServer.accept_completion
accept_completion(e, resp) ==
    Then(accept(suffix_selection(e, resp)), LAMBDA x : redraw_buffer(x, resp))

\* SSHServer.update_filter
update_filter(e) == [e EXCEPT !.filter = buffer_str(e)]

\* `with open("history.txt", "w") as f: f.write("\n".join(self.history[1:]))`
save_history(e) == [e EXCEPT !.history_file = Some(JoinLines(Tail(e.history)))]

\* SSHServer.add_history (the later definition)
add_history(e, cmd) ==
    save_history(IF Len(e.history) = 1 \/ e.history[2] # cmd
                 THEN [e EXCEPT !.history = ListInsert(e.history, 0, cmd)]
                 ELSE e)

\* SSHServer.load_history
load_history(e) ==
    IF e.history_file = NoFile THEN e
    ELSE [e EXCEPT !.history = SplitLines(Get(e.history_file))]

\* MinecraftSocket.send
ws_send(e, message) == [e EXCEPT !.sent = Append(@, message)]

\* a close that ends the input loop and leaves the registry alone
close_without_unsubscribe(e) == [e EXCEPT !.thread = "exited"]

\* SSHServer.close followed by exit(0): join() of the current thread raises
\* RuntimeError, which is caught; unsubscribe is list.remove
close_and_exit(e) ==
    IF Me \in Range(e.cbs)
    THEN [e EXCEPT !.cbs = ListRemove(e.cbs, Me), !.thread = "exited"]
    ELSE Raise(e, "ValueError")

\* the if / elif chain of send_command (server.py 445-471)
send_command_dispatch(e) ==
    IF buffer_str(e) = S_exit THEN close_and_exit(e)
    ELSE IF buffer_str(e) \in {S_clear, S_cls} THEN [e EXCEPT !.buffer = <<>>, !.position = 0]
    ELSE IF buffer_str(e) = S_reset THEN e
    ELSE IF Strip(buffer_str(e)) = EmptyStr THEN Raise(e, "IndexError")
    ELSE IF Strip(buffer_str(e))[1] = "!" THEN ws_send(e, S_broadcast \o Join(Tail(e.buffer)))
    ELSE ws_send(e, buffer_str(e))

\* a send_command without the rewrite
reload_not_rewritten(e) == e

\* the rewrite of `reload` (server.py 442-443)
reload_rewrite(e) ==
    IF buffer_str(e) = S_reload THEN [e EXCEPT !.buffer = S_reload_confirm] ELSE e

\* SSHServer.send_command
send_command(e) ==
    IF Len(e.buffer) = 0 THEN e
    ELSE Then(send_command_dispatch(reload_rewrite(add_history(e, buffer_str(e)))),
              LAMBDA x : [x EXCEPT !.buffer = <<>>, !.position = 0,
                                   !.selected = 0, !.selected_suffix = 0])

\* `self.selected = sel; self.buffer = list(self.filtered_history[sel]);
\* self.position = len(self.buffer)`, r the value of filtered_history
select_history(r, sel) ==
    IF r.st.err # NoErr THEN r.st
    ELSE IF IndexError(r.val, sel) THEN Raise(r.st, "IndexError")
    ELSE [r.st EXCEPT !.selected = sel, !.buffer = r.val[sel + 1],
                      !.position = Len(r.val[sel + 1])]

\* `self.selected_suffix = min(len(self.filtered_history) - 1, ... + 1)`
select_suffix_up(r) ==
    IF r.st.err # NoErr THEN r.st
    ELSE [r.st EXCEPT !.selected_suffix = Min(Len(r.val) - 1, @ + 1)]

\* `min(len(self.filtered_history) - 1, self.selected + 1)`
selected_up(r) == Min(Len(r.val) - 1, r.st.selected + 1)

\* the empty-filter branch of previous_command
history_up(r) == select_history(r, selected_up(r))

\* SSHServer.previous_command
previous_command(e, resp) ==
    IF e.filter = EmptyStr
    THEN history_up(filtered_history(e, resp))
    ELSE select_suffix_up(filtered_history(e, resp))

\* SSHServer.next_command
next_command(e, resp) ==
    IF e.selected = 0 /\ e.filter = EmptyStr
    THEN [e EXCEPT !.buffer = <<>>, !.position = 0]
    ELSE IF e.filter = EmptyStr
    THEN select_history(filtered_history(e, resp), Max(0, e.selected - 1))
    ELSE [e EXCEPT !.selected_suffix = Max(0, @ - 1)]


\* SSHServer.backspace
backspace(e) ==
    IF Len(e.buffer) > 0
    THEN IF IndexError(e.buffer, e.position - 1) THEN Raise(e, "IndexError")
         ELSE [e EXCEPT !.buffer = ListPop(e.buffer, e.position - 1), !.position = @ - 1]
    ELSE e

(* ------------------ SSHServer.input_handler: the keys ------------------ *)

\* the characters the operator types
Chars == {"b", " ", "!"}

\* history.txt and KNOWN_COMMANDS (as loaded from commands.txt) at start-up:
\* a first run has no history file and the command list [""]; a later run
\* has the history a previous run wrote and the commands learned so far
Installations ==
    {[history_file |-> NoFile, commands |-> <<EmptyStr>>],
     [history_file |-> Some(JoinLines(<<S_reload, S_exit, S_clear, S_cls, S_reset>>)),
      commands |-> <<EmptyStr, <<"b">>>>]}

\* the handler's final state is written back to the session and the relay
Store(e) ==
    /\ buffer' = e.buffer
    /\ position' = e.position
    /\ selected' = e.selected
    /\ selected_suffix' = e.selected_suffix
    /\ filter' = e.filter
    /\ history' = e.history
    /\ history_file' = e.history_file
    /\ sent' = e.sent
    /\ callbacks' = e.cbs
    /\ players_last_updated' = e.lu
    /\ _players' = e.pl
    /\ queries' = e.q
    /\ inputThread' = IF e.err # NoErr THEN "crashed" ELSE e.thread
    /\ inputError' = e.err
    /\ UNCHANGED <<ingestVars, threads, _lock, lockCtr, held, hookRaises, delivered>>
    /\ UNCHANGED <<now, getPc, results, linkVars>>

\* one iteration of the input loop: the case of the key, then redraw_buffer
Iteration(e, resp) ==
    /\ keys < MaxKeys
    /\ keys' = keys + 1
    /\ Store(Then(e, LAMBDA x : redraw_buffer(x, resp)))

\* check_channel_pty_request starts the thread; input_handler resets the
\* line and loads the history before its loop
input_handler_start ==
    /\ inputThread = "not_started"
    /\ keys' = keys
    /\ Store(load_history([CurrentE EXCEPT !.buffer = <<>>, !.position = 0,
                                           !.selected = 0, !.thread = "running"]))

\* case b"\r"
key_return(resp) ==
    /\ inputThread = "running"
    /\ Iteration(Then(send_command(CurrentE), update_filter), resp)

\* case b"\x7f"
key_backspace(resp) ==
    /\ inputThread = "running"
    /\ Iteration(Then(backspace(CurrentE), update_filter), resp)

\* case b"\x03"
key_interrupt(resp) ==
    /\ inputThread = "running"
    /\ Iteration(IF Len(buffer) > 0
                 THEN [CurrentE EXCEPT !.buffer = <<>>, !.position = 0]
                 ELSE close_and_exit(CurrentE), resp)

\* case b"\x1b[A"
key_up(resp) ==
    /\ inputThread = "running"
    /\ Iteration(previous_command(CurrentE, resp), resp)

\* case b"\x1b[B"
key_down(resp) ==
    /\ inputThread = "running"
    /\ Iteration(next_command(CurrentE, resp), resp)

\* case b"\x1b[D"
key_left(resp) ==
    /\ inputThread = "running"
    /\ Iteration(IF position > 0 THEN [CurrentE EXCEPT !.position = @ - 1] ELSE CurrentE,
                 resp)

\* case b"\x1b[C"
key_right(resp) ==
    /\ inputThread = "running"
    /\ Iteration(IF position = Len(buffer)
                 THEN Then(accept_completion(CurrentE, resp), update_filter)
                 ELSE IF position < Len(buffer)
                 THEN [CurrentE EXCEPT !.position = @ + 1]
                 ELSE CurrentE, resp)

\* case b"\t"
key_tab(resp) ==
    /\ inputThread = "running"
    /\ Iteration(Then(accept_completion(CurrentE, resp), update_filter), resp)

\* case b"\x1b[3~"
key_delete(resp) ==
    /\ inputThread = "running"
    /\ Iteration(Then(IF position < Len(buffer)
                      THEN IF IndexError(buffer, position)
                           THEN Raise(CurrentE, "IndexError")
                           ELSE [CurrentE EXCEPT !.buffer = ListPop(buffer, position)]
                      ELSE CurrentE,
                      update_filter), resp)

\* case _: any other decodable character
key_char(c, resp) ==
    /\ inputThread = "running"
    /\ Iteration(update_filter([CurrentE EXCEPT
                    !.buffer = ListInsert(buffer, position, c),
                    !.position = @ + 1]), resp)

\* the operator pauses for a freshness window
Wait ==
    /\ now + FreshWindow <= StartTime + MaxElapsed
    /\ now' = now + FreshWindow
    /\ UNCHANGED <<players_last_updated, _players, getPc, queries, results>>
    /\ UNCHANGED <<relayVars, editorVars, linkVars>>

NextEditor ==
    \/ input_handler_start
    \/ \E resp \in Responses : key_return(resp)
    \/ \E resp \in Responses : key_backspace(resp)
    \/ \E resp \in Responses : key_interrupt(resp)
    \/ \E resp \in Responses : key_up(resp)
    \/ \E resp \in Responses : key_down(resp)
    \/ \E resp \in Responses : key_left(resp)
    \/ \E resp \in Responses : key_right(resp)
    \/ \E resp \in Responses : key_tab(resp)
    \/ \E resp \in Responses : key_delete(resp)
    \/ \E c \in Chars : \E resp \in Responses : key_char(c, resp)
    \/ Wait

\* Editing: one session, subscribed by its constructor, with the history
\* and command files of an earlier run; nothing arrives from the feed.
InitEditing ==
    /\ InitRelay
    /\ InitRoster
    /\ \E inst \in Installations :
            /\ history_file = inst.history_file
            /\ KNOWN_COMMANDS = inst.commands
    /\ commands_file = KNOWN_COMMANDS
    /\ upstream = {}
    /\ callbacks = <<Me>>
    /\ hookRaises = [s \in Sessions |-> FALSE]
    /\ buffer = <<>>
    /\ position = 0
    /\ selected = 0
    /\ selected_suffix = 0
    /\ filter = EmptyStr
    /\ history = <<EmptyStr>>
    /\ inputThread = "not_started"
    /\ inputError = NoErr
    /\ keys = 0
    /\ sent = <<>>

SpecEditor == InitEditing /\ [][NextEditor]_vars

(* --------- one session: its input loop and its render hook ------------- *)

\* what the render hook leaves in the session and the relay: redraw_buffer
\* runs in the dispatch thread, so the input thread is not touched
StoreHook(e) ==
    /\ selected_suffix' = e.selected_suffix
    /\ players_last_updated' = e.lu
    /\ _players' = e.pl
    /\ queries' = e.q
    /\ UNCHANGED <<buffer, position, selected, filter, history, history_file,
                   inputThread, inputError, keys, sent>>
    /\ UNCHANGED <<now, getPc, results, linkVars>>

\* SSHServer.mc_callback of the session under test: before the PTY request
\* there is no self.width (AttributeError); after it the text is written
\* and redraw_buffer runs.  Either way the with-block releases the lock.
session_hook_end(t, resp) ==
    /\ threads[t].pc = "in_hook"
    /\ threads[t].tgt = Me
    /\ held' = held \ {<<threads[t].cb, threads[t].lk>>}
    /\ IF inputThread = "not_started"
       THEN /\ threads' = SetThread(t, [threads[t] EXCEPT !.pc = "except"])
            /\ UNCHANGED <<rosterVars, editorVars, linkVars>>
       ELSE /\ threads' = SetThread(t,
                    IF redraw_buffer(CurrentE, resp).err # NoErr
                    THEN [threads[t] EXCEPT !.pc = "except"]
                    ELSE EndedThread(threads[t], "done"))
            /\ StoreHook(redraw_buffer(CurrentE, resp))
    /\ UNCHANGED <<ingestVars, callbacks, _lock, lockCtr, hookRaises, delivered>>

\* No character is typed here, so the filter stays empty and no handler
\* asks for the players: the answer of the players endpoint is immaterial.
NextSession ==
    \/ input_handler_start
    \/ key_return(HttpError)
    \/ key_interrupt(HttpError)
    \/ key_up(HttpError)
    \/ \E raw \in RawMessages : on_message(raw)
    \/ dispatch_next
    \/ dispatch_end
    \/ \E t \in 1 .. Len(threads) : wrapper_lock_check(t)
    \/ \E t \in 1 .. Len(threads) : wrapper_lock_create(t)
    \/ \E t \in 1 .. Len(threads) : wrapper_lock_return(t)
    \/ \E t \in 1 .. Len(threads) : wrapper_acquire(t)
    \/ \E t \in 1 .. Len(threads) : wrapper_call(t)
    \/ \E t \in 1 .. Len(threads) : session_hook_end(t, HttpError)
    \/ \E t \in 1 .. Len(threads) : wrapper_except(t)

\* Session: one session, subscribed by its constructor, that recalls
\* commands from its history, submits them and interrupts while the feed
\* delivers well-formed plain lines.
InitSession ==
    /\ InitRelay
    /\ InitRoster
    /\ \E inst \in Installations :
            /\ history_file = inst.history_file
            /\ KNOWN_COMMANDS = inst.commands
    /\ commands_file = KNOWN_COMMANDS
    /\ upstream = PlainMessages
    /\ callbacks = <<Me>>
    /\ hookRaises = [s \in Sessions |-> FALSE]
    /\ buffer = <<>>
    /\ position = 0
    /\ selected = 0
    /\ selected_suffix = 0
    /\ filter = EmptyStr
    /\ history = <<EmptyStr>>
    /\ inputThread = "not_started"
    /\ inputError = NoErr
    /\ keys = 0
    /\ sent = <<>>

SpecSession == InitSession /\ [][NextSession]_vars

(* ------------- one session whose client closes the channel ------------- *)

\* the client side of the channel is closed: from now on channel.recv(1)
\* returns b"" at once
disconnect ==
    /\ channel = "open"
    /\ channel' = "eof"
    /\ UNCHANGED <<apps, ws, sendPc, sendTarget, sendError, faults>>
    /\ UNCHANGED <<relayVars, rosterVars, editorVars>>

\* one iteration of the input loop at end of stream: b"" decodes without
\* error, is not b"\x1b" and matches no case but the default one
read_eof(resp) ==
    /\ channel = "eof"
    /\ key_char(NoChar, resp)

\* A key arrives only while the client side is open.  No character is
\* typed here, so buffer_str and the filter stay empty and no handler asks
\* for the players: the answer of the players endpoint is immaterial.
NextDisconnect ==
    \/ input_handler_start
    \/ channel = "open" /\ key_interrupt(HttpError)
    \/ disconnect
    \/ read_eof(HttpError)
    \/ \E raw \in RawMessages : on_message(raw)
    \/ dispatch_next
    \/ dispatch_end
    \/ \E t \in 1 .. Len(threads) : wrapper_lock_check(t)
    \/ \E t \in 1 .. Len(threads) : wrapper_lock_create(t)
    \/ \E t \in 1 .. Len(threads) : wrapper_lock_return(t)
    \/ \E t \in 1 .. Len(threads) : wrapper_acquire(t)
    \/ \E t \in 1 .. Len(threads) : wrapper_call(t)
    \/ \E t \in 1 .. Len(threads) : session_hook_end(t, HttpError)
    \/ \E t \in 1 .. Len(threads) : wrapper_except(t)

SpecDisconnect == InitSession /\ [][NextDisconnect]_vars

\* the input thread is scheduled: its loop never blocks at end of stream
SpecDisconnectFair ==
    SpecDisconnect /\ WF_vars(read_eof(HttpError))

(* ------------- MinecraftSocket: the upstream connection ---------------- *)

\* A WebSocketApp is "connecting" from its creation by start(), "connected"
\* once its socket reports connected, "refused" when the connection attempt
\* failed, "broken" when an established connection has died, and "closed"
\* once its run_forever thread has called on_close.
LiveApp(app) == app \in {"connecting", "connected"}

\* frames for the linkVars left alone by the actions of the connection
sendVars == <<sendPc, sendTarget, sendError>>

\* MinecraftSocket.start: a new WebSocketApp and its thread; self.ws is
\* rebound to it.  The caller then polls self.ws until it is connected.
start(as) == Append(as, "connecting")

\* the upstream accepts the connection of app i
connect_accept(i) ==
    /\ apps[i] = "connecting"
    /\ apps' = [apps EXCEPT ![i] = "connected"]
    /\ UNCHANGED <<channel, ws, sendVars, faults>>
    /\ UNCHANGED <<relayVars, rosterVars, editorVars>>

\* a transport fault: the connection attempt of app i fails, or its
\* established connection dies
link_fault(i) ==
    /\ faults < MaxFaults
    /\ LiveApp(apps[i])
    /\ faults' = faults + 1
    /\ apps' = [apps EXCEPT ![i] = IF @ = "connecting" THEN "refused" ELSE "broken"]
    /\ UNCHANGED <<channel, ws, sendVars>>
    /\ UNCHANGED <<relayVars, rosterVars, editorVars>>

\* MinecraftSocket.on_error (a log line) and on_close, called by the
\* run_forever thread of app i when its connection is gone: self.start()
on_close(i) ==
    /\ apps[i] \in {"refused", "broken"}
    /\ apps' = start([apps EXCEPT ![i] = "closed"])
    /\ ws' = Len(apps')
    /\ UNCHANGED <<channel, sendVars, faults>>
    /\ UNCHANGED <<relayVars, rosterVars, editorVars>>

\* MinecraftSocket.send, `self.ws.send(message)`: self.ws is read and the
\* call is made on that app
send_call(s) ==
    /\ sendPc[s] = "idle"
    /\ sendError[s] = NoErr
    /\ sendTarget' = [sendTarget EXCEPT ![s] = ws]
    /\ sendPc' = [sendPc EXCEPT ![s] = "in_send"]
    /\ UNCHANGED <<channel, apps, ws, sendError, faults>>
    /\ UNCHANGED <<relayVars, rosterVars, editorVars>>

\* ws.send returns on a connected app and raises BrokenPipeError on an
\* established connection that has died; on an app that has no connected
\* socket it raises the library's connection-closed exception, which
\* `except BrokenPipeError` lets through to the session
send_return(s) ==
    /\ sendPc[s] = "in_send"
    /\ IF apps[sendTarget[s]] = "connected"
       THEN sendPc' = [sendPc EXCEPT ![s] = "idle"] /\ sendError' = sendError
       ELSE IF apps[sendTarget[s]] = "broken"
       THEN sendPc' = [sendPc EXCEPT ![s] = "except"] /\ sendError' = sendError
       ELSE sendPc' = [sendPc EXCEPT ![s] = "idle"]
            /\ sendError' = [sendError EXCEPT ![s] = "ConnectionClosed"]
    /\ UNCHANGED <<channel, apps, ws, sendTarget, faults>>
    /\ UNCHANGED <<relayVars, rosterVars, editorVars>>

\* `except BrokenPipeError: self.start()`
send_except(s) ==
    /\ sendPc[s] = "except"
    /\ apps' = start(apps)
    /\ ws' = Len(apps')
    /\ sendPc' = [sendPc EXCEPT ![s] = "poll"]
    /\ UNCHANGED <<channel, sendTarget, sendError, faults>>
    /\ UNCHANGED <<relayVars, rosterVars, editorVars>>

\* `while not self.ws.sock or not self.ws.sock.connected: time.sleep(0.1)`
\* ends, and send returns to the session
send_poll(s) ==
    /\ sendPc[s] = "poll"
    /\ apps[ws] = "connected"
    /\ sendPc' = [sendPc EXCEPT ![s] = "idle"]
    /\ UNCHANGED <<channel, apps, ws, sendTarget, sendError, faults>>
    /\ UNCHANGED <<relayVars, rosterVars, editorVars>>

NextUpstream ==
    \/ \E i \in 1 .. Len(apps) : connect_accept(i)
    \/ \E i \in 1 .. Len(apps) : link_fault(i)
    \/ \E i \in 1 .. Len(apps) : on_close(i)
    \/ \E s \in Sessions : send_call(s)
    \/ \E s \in Sessions : send_return(s)
    \/ \E s \in Sessions : send_except(s)
    \/ \E s \in Sessions : send_poll(s)

\* Upstream: the sessions send commands while the connection suffers
\* transport faults; nothing arrives from the feed.
InitUpstream ==
    /\ InitRelay
    /\ KNOWN_COMMANDS = <<EmptyStr>>
    /\ commands_file = KNOWN_COMMANDS
    /\ InitRoster
    /\ InitEditor
    /\ upstream = {}
    /\ callbacks = [i \in 1 .. NSessions |-> i]
    /\ hookRaises = [s \in Sessions |-> FALSE]

SpecUpstream == InitUpstream /\ [][NextUpstream]_vars

\* the run_forever threads, the session threads inside send and the
\* upstream (which accepts a pending connection) all keep running
SpecUpstreamFair ==
    /\ SpecUpstream
    /\ \A i \in 1 .. (MaxFaults * (NSessions + 1) + 1) :
            WF_vars(i <= Len(apps) /\ connect_accept(i))
            /\ WF_vars(i <= Len(apps) /\ on_close(i))
    /\ \A s \in Sessions :
            /\ WF_vars(send_return(s))
            /\ WF_vars(send_except(s))
            /\ WF_vars(send_poll(s))

(* ======================= properties of the editor ====================== *)

\* C2: buffer invariant.  After any sequence of key dispatches, while the
\* input loop is running, the cursor position is within 0 .. len(buffer).
CursorInBounds ==
    inputThread = "running" => (0 <= position /\ position <= Len(buffer))

\* this step is the dispatch of a carriage return
Submit == \E resp \in Responses : key_return(resp)

\* C7 as claimed: submitting the buffer `reload` sends nothing upstream on
\* that submit and leaves `reload confirm` as the buffer.
ReloadNeedsSecondSubmit ==
    [][(Submit /\ buffer = S_reload) =>
            (sent' = sent /\ buffer' = S_reload_confirm)]_vars

\* C7 as amended: submitting the buffer `reload` sends exactly one upstream
\* command, `reload confirm`, on that submit, has `reload` in the history
\* and leaves the buffer empty with the cursor at 0.
ReloadSendsConfirm ==
    [][(Submit /\ buffer = S_reload) =>
            /\ sent' = Append(sent, S_reload_confirm)
            /\ buffer' = <<>>
            /\ position' = 0
            /\ S_reload \in Range(history')
            /\ inputThread' = "running"]_vars

\* C7 witness: `reload` was submitted: it heads the history, `reload
\* confirm` is the last command sent and the buffer is empty
ReloadSubmitted ==
    /\ Len(sent) >= 1
    /\ sent[Len(sent)] = S_reload_confirm
    /\ history[1] = S_reload
    /\ buffer = <<>>
    /\ inputThread = "running"

\* the buffers send_command treats as local or rewritten commands
Reserved == {S_reload, S_exit, S_clear, S_cls, S_reset}

\* C13: upstream forwarding on submit.  A buffer whose leading character
\* is `!` sends exactly one command, `/broadcast ` followed by the buffer
\* without that `!`; any other non-empty buffer that is not reload, exit,
\* clear, cls or reset sends exactly one command, the buffer verbatim.
SubmitForwards ==
    [][(Submit /\ Len(buffer) > 0 /\ buffer \notin Reserved) =>
            sent' = Append(sent, IF buffer[1] = "!"
                                 THEN S_broadcast \o Tail(buffer)
                                 ELSE buffer)]_vars

\* C14: history duplicate suppression.  Submitting a command equal to the
\* most-recent history entry does not insert it again; submitting any other
\* command inserts it as the new most-recent entry.
HistoryDedup ==
    [][(Submit /\ Len(buffer) > 0) =>
            history' = IF buffer = history[1] THEN history ELSE <<buffer>> \o history]_vars

\* the in-memory history without the empty sentinel of __init__
WithoutSentinel(h) == SelectSeq(h, LAMBDA c : c # EmptyStr)

\* what load_history of a new session reads from history.txt
Reloaded(file) == load_history([history |-> <<EmptyStr>>, history_file |-> file]).history

\* C15: history persistence round trip.  After every submission the file
\* holds the whole in-memory history, most recent first, without the empty
\* sentinel, so loading it in a new session yields that history, the
\* command just submitted included.
HistoryRoundTrip ==
    [][(Submit /\ Len(buffer) > 0) =>
            /\ Reloaded(history_file') = WithoutSentinel(history')
            /\ buffer \in Range(Reloaded(history_file'))]_vars

NoAdjacentDuplicates(list) == \A i \in 2 .. Len(list) : list[i] # list[i - 1]

\* the candidate list val is as it should be for the current filter
CandidatesOk(val) ==
    /\ Len(val) >= 1
    /\ val[1] = filter
    /\ \A i \in 2 .. Len(val) : StartsWith(val[i], filter)
    /\ filter = EmptyStr =>
            /\ Tail(val) = DedupAdjacent(history \o KNOWN_COMMANDS)
            /\ NoAdjacentDuplicates(Tail(val))
            /\ Range(Tail(val)) = Range(history) \cup Range(KNOWN_COMMANDS)

\* C16: completion correctness.  Whatever the players endpoint answers,
\* whenever filtered_history returns a list, its entry zero is the filter
\* and every later entry starts with the filter; for the empty filter it is
\* [""] followed by history ++ known commands with adjacent duplicates
\* collapsed.
CompletionCorrect ==
    \A resp \in Responses :
        filtered_history(CurrentE, resp).st.err = NoErr
            => CandidatesOk(filtered_history(CurrentE, resp).val)

\* C16 witness: with the filter `b` the list holds a completed player name,
\* and history entries that do not start with `b` are left out
PlayerCompleted ==
    /\ inputThread = "running"
    /\ filter = <<"b">>
    /\ S_reload \in Range(history)
    /\ \E resp \in Responses :
            /\ filtered_history(CurrentE, resp).st.err = NoErr
            /\ NameBo \in Range(Tail(filtered_history(CurrentE, resp).val))

\* this step dispatches a key that indexes a candidate list with a
\* selection index: Up, Down, Tab or Right-arrow
Navigates ==
    \E resp \in Responses :
        key_up(resp) \/ key_down(resp) \/ key_tab(resp) \/ key_right(resp)

\* C18: selection indices in range.  Up, Down, Tab and Right-arrow, and
\* the redraw that follows them, never index a candidate list out of range.
SelectionInRange == [][Navigates => inputError' # "IndexError"]_vars

\* C19: submit always resets.  A carriage return completes without error
\* for every buffer and leaves the buffer empty, the cursor at 0, both
\* selection indices at 0 and the filter empty.
SubmitResets ==
    [][Submit =>
            /\ inputError' = NoErr
            /\ buffer' = <<>>
            /\ position' = 0
            /\ selected' = 0
            /\ selected_suffix' = 0
            /\ filter' = EmptyStr]_vars

\* this step dispatches a key other than Up-arrow and Down-arrow
DispatchesOtherKey ==
    /\ keys' = keys + 1
    /\ ~ \E resp \in Responses : key_up(resp) \/ key_down(resp)

\* C20: filter tracks buffer.  After every key dispatch other than Up-arrow
\* and Down-arrow that leaves the input loop running, the filter equals the
\* buffer content.
FilterTracksBuffer ==
    [][(DispatchesOtherKey /\ inputThread' = "running") => filter' = buffer']_vars

(* ====================== properties of one session ====================== *)

\* this step closes the session: interrupt with an empty buffer, or a
\* submit of `exit`; both run SSHServer.close, which calls unsubscribe
Closes ==
    \/ Len(buffer) = 0 /\ \E resp \in Responses : key_interrupt(resp)
    \/ buffer = S_exit /\ Submit

\* C11: registry idempotence.  unsubscribe of a session that is not in
\* the registry raises no error and leaves the registry unchanged, and
\* after any unsubscribe the session is absent from the registry.
UnsubscribeIdempotent ==
    [][Closes =>
        /\ Me \notin Range(callbacks')
        /\ Me \notin Range(callbacks) => (inputError' = NoErr /\ callbacks' = callbacks)]_vars

\* close has completed: unsubscribe returned and exit(0) ended the input loop
Closed == inputThread = "exited"

\* the render hook of the session was entered only for the first n messages
HookOnlyUpTo(n) == \A i \in 1 .. Len(delivered[Me]) : delivered[Me][i] <= n

\* C12: session close.  A close ends the input loop and removes the
\* session from the registry; from then on the session is never registered
\* and its render hook is entered for no message ingested after the close.
SessionCloseFinal ==
    /\ [][Closes => (inputThread' # "running" /\ Me \notin Range(callbacks'))]_vars
    /\ [](Closed => Me \notin Range(callbacks))
    /\ \A n \in 0 .. MaxIngest :
            []((Closed /\ Len(ingestLog) = n) => []HookOnlyUpTo(n))

\* C12 witness: the session was closed, a message was ingested afterwards
\* and dispatched to nobody
ClosedThenIngested ==
    /\ Closed
    /\ Me \notin Range(callbacks)
    /\ omPc = "idle"
    /\ Len(ingestLog) >= 1
    /\ ingestLog[Len(ingestLog)].outcome = "dispatch"
    /\ callbackCell[Len(ingestLog)] = 0

(* ======================= properties of the roster ====================== *)

\* C8: get_online_players never raises to its caller.
RosterNeverRaises == \A s \in Sessions : results[s].kind # "raised"

\* C9 as claimed: a call whose refresh query failed yields the roster that
\* was cached before it, and the empty list only when nothing was cached.
FailedRefreshYieldsPrevious ==
    \A s \in Sessions :
        results[s].via = "refresh_failed" =>
            results[s].value =
                (IF results[s].cached = Unset THEN <<>> ELSE Get(results[s].cached))

\* C9 as amended: a failed refresh query leaves the cached roster as it was
\* and the call that made it yields the empty list, whatever is cached.
FailedRefreshYieldsEmpty ==
    [][\A s \in Sessions :
        (getPc[s] = "requested" /\ getPc'[s] = "idle" /\ results'[s].via = "refresh_failed")
            => (_players' = _players /\ results'[s].value = <<>>)]_vars

\* C9 witness: a refresh failed while a non-empty roster was cached, and
\* that call yielded the empty list
FailedRefreshWithCache ==
    \E s \in Sessions :
        /\ results[s].via = "refresh_failed"
        /\ results[s].cached \notin {Unset, Some(<<>>)}
        /\ _players = results[s].cached
        /\ results[s].value = <<>>

\* C10: roster freshness.  A call made less than FreshWindow seconds after
\* the last refresh issues no query, so any two queries are at least
\* FreshWindow seconds apart.
QueriesSpaced ==
    \A i \in 1 .. Len(queries) : \A j \in 1 .. Len(queries) :
        i < j => queries[j] - queries[i] >= FreshWindow

(* ======================= properties of the relay ======================= *)

Healthy == {s \in Sessions : ~hookRaises[s]}

ThreadIds == 1 .. Len(threads)

Ended(t) == threads[t].pc \in {"done", "died"}

\* ids of the on_message calls that entered the dispatch loop
Dispatched == {k \in 1 .. Len(ingestLog) : callbackCell[k] # 0}

\* the event loop is idle and every dispatch thread has ended
Quiescent == omPc = "idle" /\ \A t \in ThreadIds : Ended(t)

\* C1: fan-out isolation.  With N subscribers of which exactly one has a
\* render hook that always raises, once the dispatch threads have all
\* finished, exactly the N-1 healthy subscribers are registered and each of
\* them had its render hook entered with every dispatched message.
FanoutIsolation ==
    (Quiescent /\ Dispatched # {}) =>
        /\ Len(callbacks) = NSessions - 1
        /\ Range(callbacks) = Healthy
        /\ \A s \in Healthy : \A k \in Dispatched : k \in Range(delivered[s])

\* C3: per-subscriber ordering.  A session's render hook is entered for
\* the accepted messages in the order on_message accepted them.
PerSubscriberOrder ==
    \A s \in Sessions :
        \A i \in 1 .. Len(delivered[s]) : \A j \in 1 .. Len(delivered[s]) :
            i < j => delivered[s][i] <= delivered[s][j]

InHook(s) == {t \in ThreadIds : threads[t].pc = "in_hook" /\ threads[t].tgt = s}

\* C4: per-subscriber mutual exclusion.  No two invocations of one
\* session's mc_callback are in progress at the same time.
HookMutualExclusion == \A s \in Sessions : Cardinality(InHook(s)) <= 1

Ts(raw) == json_loads(raw).timestampMillis

\* this step is an on_message call
Ingests == Len(ingestLog') = Len(ingestLog) + 1

Ingested == ingestLog'[Len(ingestLog')].raw

StoreUntouched ==
    /\ KNOWN_MESSAGES' = KNOWN_MESSAGES
    /\ messages_file' = messages_file
    /\ threads' = threads
    /\ omPc' = "idle"

\* every dispatch thread, and every entry of a render hook, is for a frame
\* that was not below the high-water mark when it was ingested
OnlyFreshDispatched ==
    /\ \A t \in ThreadIds : Ts(ingestLog[threads[t].msg].raw) >= ingestLog[threads[t].msg].mark
    /\ \A s \in Sessions : \A i \in 1 .. Len(delivered[s]) :
            Ts(ingestLog[delivered[s][i]].raw) >= ingestLog[delivered[s][i]].mark

\* C5: monotonicity.  A frame whose timestamp is strictly below the
\* high-water mark when it is ingested is not stored and starts no dispatch,
\* no dispatch thread or render-hook entry is ever for such a frame, and the
\* high-water mark never decreases.
StaleNeverDelivered ==
    /\ [][/\ latest_message' >= latest_message
          /\ (Ingests /\ Ts(Ingested) < latest_message) =>
                (StoreUntouched /\ latest_message' = latest_message)]_vars
    /\ []OnlyFreshDispatched

\* C5 witness: a stale frame has been ingested after an accepted one, and
\* it is not in the store
StaleIngested ==
    \E k \in 1 .. Len(ingestLog) :
        /\ Ts(ingestLog[k].raw) < ingestLog[k].mark
        /\ ingestLog[k].raw \notin Range(KNOWN_MESSAGES)
        /\ Len(KNOWN_MESSAGES) >= 1

StoredCount(raw) == Cardinality({i \in 1 .. Len(KNOWN_MESSAGES) : KNOWN_MESSAGES[i] = raw})

SeenBefore(raw) == \E k \in 1 .. Len(ingestLog) : ingestLog[k].raw = raw

\* a frame is stored at most once, and exactly once when an ingest of it
\* found it at or above the high-water mark
StoredOnce ==
    \A raw \in RawMessages :
        /\ StoredCount(raw) <= 1
        /\ (\E k \in 1 .. Len(ingestLog) :
                ingestLog[k].raw = raw /\ Ts(raw) >= ingestLog[k].mark)
            => StoredCount(raw) = 1

Accepts == Ts(Ingested) >= latest_message /\ Ingested \notin Range(KNOWN_MESSAGES)

\* this step ingests an accepted frame that announces a command
Announces == Ingests /\ Accepts /\ CommandMatches(json_loads(Ingested).message)

Announced == CommandOf(json_loads(Ingested).message)

Occurrences(list, x) == Cardinality({i \in 1 .. Len(list) : list[i] = x})

RelayState == apps[ws]

\* C21: transport-fault recovery.  A send that hits a broken pipe raises
\* nothing to the session; the relay starts a new connection attempt only
\* when its current connection is closed or has failed, each connection
\* goes from connecting to connected and from there to closed or failed;
\* and the relay is connected again in the end.
TransportRecovery ==
    /\ [](\A s \in Sessions : sendError[s] # "BrokenPipeError")
    /\ [][ws' # ws => ~LiveApp(RelayState)]_vars
    /\ [][\A i \in 1 .. Len(apps) :
            apps'[i] = "connected" => apps[i] \in {"connecting", "connected"}]_vars
    /\ <>[](RelayState = "connected")

\* C22: single upstream consumer.  At most one WebSocketApp is connecting
\* or connected at any moment.
SingleConsumer == Cardinality({i \in 1 .. Len(apps) : LiveApp(apps[i])}) <= 1

(* ================= properties of the session life cycle ================ *)

\* the input loop starts: check_channel_pty_request has started the thread
EntersActive == inputThread = "not_started" /\ inputThread' = "running"

\* C23: active sessions are registered.  The session is in the registry
\* when its input loop starts, and while the loop runs it leaves the
\* registry only by a close or by the failure path of its render hook.
ActiveRegistered ==
    /\ [][EntersActive => Me \in Range(callbacks')]_vars
    /\ [][(inputThread = "running" /\ Me \in Range(callbacks)
                /\ Me \notin Range(callbacks'))
            => (Closes \/ \E t \in 1 .. Len(threads) : wrapper_except(t))]_vars

\* the session is Active and its client has closed the channel
Orphaned == channel = "eof" /\ inputThread = "running"

AcceptsCompletion ==
    \E resp \in Responses :
        key_tab(resp) \/ (position = Len(buffer) /\ key_right(resp))

\* C25: accepting a completion never discards typed text.  When the filter
\* equals the buffer, Tab or Right-arrow at the end leaves a buffer that
\* starts with the previous buffer, the cursor at its end and the filter
\* equal to it.
CompletionKeepsText ==
    [][(AcceptsCompletion /\ filter = buffer /\ inputThread' = "running") =>
            /\ StartsWith(buffer', buffer)
            /\ position' = Len(buffer')
            /\ filter' = buffer']_vars

====
